---- MODULE Spec2Model ----
(***************************************************************************)
(* A model of agent.py: the phrase selector agent_phrase, the HTTP GET     *)
(* handler WebApp.do_GET and the command line entry point main.            *)
(*                                                                         *)
(* Text is modelled by TLA+ strings, on which TLC evaluates Len, SubSeq    *)
(* and \o, so the parsing and formatting the handler does (urlparse,       *)
(* parse_qs, str.lower, json.dumps) is computed character by character.    *)
(***************************************************************************)
EXTENDS Integers, Sequences, FiniteSets, TLC

(***************************************************************************)
(* Strings                                                                 *)
(***************************************************************************)

\* s[i-1] of Python, as a one-character string (positions count from 1).
Char(s, i) == SubSeq(s, i, i)

\* s[i-1:] of Python.
From(s, i) == SubSeq(s, i, Len(s))

\* str.find(c, start) for a one-character c: the first position >= start
\* holding c, 0 when there is none.
RECURSIVE find(_, _, _)
find(s, c, start) ==
    IF start > Len(s) THEN 0
    ELSE IF Char(s, start) = c THEN start
    ELSE find(s, c, start + 1)

\* str.rfind(c): the last position holding c, 0 when there is none.
RECURSIVE rfind(_, _, _)
rfind(s, c, end) ==
    IF end < 1 THEN 0
    ELSE IF Char(s, end) = c THEN end
    ELSE rfind(s, c, end - 1)

\* str.split(sep) for a one-character sep.
RECURSIVE split(_, _)
split(s, sep) ==
    LET i == find(s, sep, 1)
    IN  IF i = 0 THEN <<s>>
        ELSE <<SubSeq(s, 1, i - 1)>> \o split(From(s, i + 1), sep)

\* str.replace(a, b) for one-character a.
RECURSIVE replace(_, _, _)
replace(s, a, b) ==
    IF s = "" THEN ""
    ELSE (IF Char(s, 1) = a THEN b ELSE Char(s, 1)) \o replace(From(s, 2), a, b)

UPPERCASE == "ABCDEFGHIJKLMNOPQRSTUVWXYZ"
LOWERCASE == "abcdefghijklmnopqrstuvwxyz"

lower_char(c) ==
    LET i == find(UPPERCASE, c, 1)
    IN  IF i = 0 THEN c ELSE Char(LOWERCASE, i)

\* The comparison made without str.lower().
lower_missing(s) == s

\* str.lower() on ASCII text.
RECURSIVE lower(_)
lower(s) ==
    IF s = "" THEN "" ELSE lower_char(Char(s, 1)) \o lower(From(s, 2))

\* The printable ASCII characters of codes 32 to 95 and of codes 97 to 126
\* (code 96, the grave accent, cannot be written in a TLA+ string).
PRINTABLE_LOW ==
    " !\"#$%&'()*+,-./0123456789:;<=>?@ABCDEFGHIJKLMNOPQRSTUVWXYZ[\\]^_"
PRINTABLE_HIGH == "abcdefghijklmnopqrstuvwxyz{|}~"

\* chr(n) for a printable ASCII code other than 96 (the only codes the
\* modelled requests escape).
chr(n) ==
    IF n < 96 THEN Char(PRINTABLE_LOW, n - 31) ELSE Char(PRINTABLE_HIGH, n - 96)

HEXDIGITS == "0123456789abcdef"

\* The value of a hexadecimal digit, -1 for any other character.
hexval(c) == find(HEXDIGITS, lower_char(c), 1) - 1

\* urllib.parse.unquote: every %XX with two hexadecimal digits is replaced
\* by the character it encodes, any other "%" is kept as it is.
RECURSIVE unquote(_)
unquote(s) ==
    IF s = "" THEN ""
    ELSE IF /\ Char(s, 1) = "%"
            /\ Len(s) >= 3
            /\ hexval(Char(s, 2)) >= 0
            /\ hexval(Char(s, 3)) >= 0
         THEN chr(16 * hexval(Char(s, 2)) + hexval(Char(s, 3))) \o unquote(From(s, 4))
         ELSE Char(s, 1) \o unquote(From(s, 2))

(***************************************************************************)
(* urllib.parse, as do_GET uses it                                         *)
(***************************************************************************)

\* urllib.parse._splitparams: the ";parameters" of the last path segment.
splitparams(url) ==
    LET slash == rfind(url, "/", Len(url))
        i     == find(url, ";", IF slash = 0 THEN 1 ELSE slash)
    IN  IF i = 0 THEN [path |-> url, params |-> ""]
        ELSE [path |-> SubSeq(url, 1, i - 1), params |-> From(url, i + 1)]

\* urlparse(self.path) for a request target in origin form (it starts with
\* one "/", so that it has neither a scheme nor a network location): the
\* fragment is split off at the first "#", then the query at the first "?",
\* then the parameters of the last path segment at its first ";".
urlparse(url) ==
    LET h     == find(url, "#", 1)
        nofr  == IF h = 0 THEN url ELSE SubSeq(url, 1, h - 1)
        fr    == IF h = 0 THEN "" ELSE From(url, h + 1)
        q     == find(nofr, "?", 1)
        noq   == IF q = 0 THEN nofr ELSE SubSeq(nofr, 1, q - 1)
        qs    == IF q = 0 THEN "" ELSE From(nofr, q + 1)
        sp    == IF find(noq, ";", 1) = 0
                 THEN [path |-> noq, params |-> ""]
                 ELSE splitparams(noq)
    IN  [path |-> sp.path, params |-> sp.params, query |-> qs, fragment |-> fr]

\* One field of parse_qsl: <<>> for a field that is dropped (an empty field,
\* a field without "=", a field with a blank value: keep_blank_values is
\* off), else the decoded <<name, value>>.
parse_field(name_value) ==
    LET e == find(name_value, "=", 1)
    IN  IF name_value = "" \/ e = 0 \/ e = Len(name_value) THEN <<>>
        ELSE << <<unquote(replace(SubSeq(name_value, 1, e - 1), "+", " ")),
                  unquote(replace(From(name_value, e + 1), "+", " "))>> >>

RECURSIVE parse_fields(_)
parse_fields(fields) ==
    IF fields = <<>> THEN <<>>
    ELSE parse_field(Head(fields)) \o parse_fields(Tail(fields))

\* parse_qs(qs), as the sequence of its <<name, value>> pairs in the order of
\* the query string: the list of a name is the values of its pairs, in order.
parse_qs(qs) == parse_fields(split(qs, "&"))

RECURSIVE values_of(_, _)
values_of(pairs, key) ==
    IF pairs = <<>> THEN <<>>
    ELSE (IF Head(pairs)[1] = key THEN <<Head(pairs)[2]>> ELSE <<>>)
         \o values_of(Tail(pairs), key)

\* query.get(key, default) on the result of parse_qs.
query_get(query, key, default) ==
    LET vs == values_of(query, key) IN IF vs = <<>> THEN default ELSE vs

(***************************************************************************)
(* json.dumps, as do_GET uses it (ensure_ascii is on)                      *)
(***************************************************************************)

\* Stands for U+2019, the right single quotation mark of two phrases, which
\* a TLA+ string cannot hold; no request target contains a form feed.
RSQUO == "\f"

json_escape_char(c) ==
    IF c = "\"" THEN "\\\""
    ELSE IF c = "\\" THEN "\\\\"
    ELSE IF c = RSQUO THEN "\\u2019"
    ELSE c

RECURSIVE json_escape(_)
json_escape(s) ==
    IF s = "" THEN "" ELSE json_escape_char(Char(s, 1)) \o json_escape(From(s, 2))

json_str(s) == "\"" \o json_escape(s) \o "\""

json_bool(b) == IF b THEN "true" ELSE "false"

\* json.dumps({"random": randomize, "phrase": phrase})
dumps_phrase(randomize, phrase) ==
    "{" \o json_str("random") \o ": " \o json_bool(randomize) \o ", "
        \o json_str("phrase") \o ": " \o json_str(phrase) \o "}"

\* json.dumps({"error": message})
dumps_error(message) ==
    "{" \o json_str("error") \o ": " \o json_str(message) \o "}"

(***************************************************************************)
(* The requests a client sends                                             *)
(***************************************************************************)

\* The most fields ("name=value" parts) in the query string of a request.
MaxParams == 2

\* Request paths: the route, near misses of it, and a path with a quote.
Paths == {"/phrase", "/Phrase", "/phrase/", "/", "/unknown/path", "/a\"b"}

\* Query fields as the client writes them: a name, and a value after "="
\* when eq is set (the field is then "name=value", else the bare "name").
Fields ==
    { [name |-> "random", eq |-> TRUE,  value |-> "true"],
      [name |-> "random", eq |-> TRUE,  value |-> "TRUE"],
      [name |-> "random", eq |-> TRUE,  value |-> "%54rue"],
      [name |-> "random", eq |-> TRUE,  value |-> "false"],
      [name |-> "random", eq |-> TRUE,  value |-> ""],
      [name |-> "random", eq |-> FALSE, value |-> ""],
      [name |-> "other",  eq |-> TRUE,  value |-> "true"] }

Queries(n) == UNION { [1..k -> Fields] : k \in 0..n }

\* A request: the path, the ";parameters" of its last segment, the query
\* fields and the fragment the client put into the request target.  Requests
\* to the route come with every query; the other shapes with short queries.
Requests ==
    { [path |-> "/phrase", params |-> "", fields |-> q, fragment |-> ""] :
        q \in Queries(MaxParams) }
    \cup
    { [path |-> p, params |-> m, fields |-> q, fragment |-> f] :
        p \in Paths, m \in {"", "v1"}, q \in Queries(1), f \in {"", "top"} }

FieldText(fd) == fd.name \o (IF fd.eq THEN "=" \o fd.value ELSE "")

RECURSIVE QueryText(_)
QueryText(fields) ==
    IF fields = <<>> THEN ""
    ELSE IF Len(fields) = 1 THEN FieldText(fields[1])
    ELSE FieldText(fields[1]) \o "&" \o QueryText(Tail(fields))

\* The request target of the request line, which the server framework
\* stores in self.path.
Target(rq) ==
    rq.path
    \o (IF rq.params = "" THEN "" ELSE ";" \o rq.params)
    \o (IF rq.fields = <<>> THEN "" ELSE "?" \o QueryText(rq.fields))
    \o (IF rq.fragment = "" THEN "" ELSE "#" \o rq.fragment)

NoRequest == [path |-> "", params |-> "", fields |-> <<>>, fragment |-> ""]

(***************************************************************************)
(* The command line                                                        *)
(***************************************************************************)

\* An optional argument is <<>> (None, the default) or <<value>>.
None == <<>>

\* The files of the machine that hold a certificate or key the ssl module
\* can load.
ReadableFiles == {"cert.pem", "key.pem"}

SslCerts == {None, <<"cert.pem">>, <<"missing.pem">>}
SslKeys  == {None, <<"key.pem">>, <<"missing.key">>}

\* Python's truth value of an optional string argument.
truthy(opt) == opt # None /\ opt[1] # ""

Args ==
    { [command |-> "none", random |-> FALSE, ssl_cert |-> None, ssl_key |-> None] }
    \cup
    { [command |-> "phrase", random |-> r, ssl_cert |-> None, ssl_key |-> None] :
        r \in BOOLEAN }
    \cup
    { [command |-> "webserver", random |-> FALSE, ssl_cert |-> c, ssl_key |-> k] :
        c \in SslCerts, k \in SslKeys }

(***************************************************************************)
(* State                                                                   *)
(***************************************************************************)

VARIABLES
    args,           \* main: the parsed command line
    port_free,      \* environment: localhost:8000 can be bound
    main_pc,        \* main: "route", "wrap", "serve", "exit"
    exit_status,    \* main: "running", "ok" (returned), "error" (uncaught exception)
    stdout,         \* the lines printed
    address,        \* the address httpd listens on, <<>> before it is bound
    tls,            \* httpd.socket is wrapped by ssl
    interrupted,    \* an interrupt signal has been delivered
    request,        \* the request of the client being served
    self_path,      \* handler: self.path
    h_pc,           \* handler: "idle", "build", "send", "end_headers", "write",
                    \*          "except", "done", "raised", "interrupted"
    h_exc,          \* handler: the exception do_GET caught, "none" if none
    randomize,      \* do_GET: randomize
    r_code,         \* do_GET: r_code
    r_type,         \* do_GET: r_type
    r_content,      \* do_GET: r_content
    headers_buffer, \* handler: the status line and headers not yet written
    wfile,          \* handler: the writes made to the connection, in order
    prior           \* how the request before this one ended: "none" (there
                    \* was none), "ok", "error" (a 500 was sent), "raised"

main_vars == <<args, port_free, main_pc, exit_status, stdout, address, tls, interrupted>>
handler_vars ==
    <<request, self_path, h_pc, h_exc, randomize, r_code, r_type, r_content,
      headers_buffer, wfile>>
vars == <<main_vars, handler_vars, prior>>

\* A fresh handler: nothing parsed, nothing buffered, nothing written.
HandlerIdle ==
    /\ request = NoRequest
    /\ self_path = ""
    /\ h_pc = "idle"
    /\ h_exc = "none"
    /\ randomize = FALSE
    /\ r_code = 0
    /\ r_type = ""
    /\ r_content = ""
    /\ headers_buffer = <<>>
    /\ wfile = <<>>

Init ==
    /\ args \in Args
    /\ port_free \in BOOLEAN
    /\ main_pc = "route"
    /\ exit_status = "running"
    /\ stdout = <<>>
    /\ address = <<>>
    /\ tls = FALSE
    /\ interrupted = FALSE
    /\ HandlerIdle
    /\ prior = "none"

(***************************************************************************)
(* The phrase selector                                                     *)
(***************************************************************************)

phrases ==
    << "The name" \o RSQUO \o "s Bond. James Bond.",
       "Shaken, not stirred.",
       "They say you" \o RSQUO \o "re judged by the strength of your enemies.",
       "Problem solver? More of a problem eliminator." >>

\* A selector returning phrases[1] of Python, the second phrase.
agent_phrase_second(randomize_) ==
    IF randomize_ THEN {phrases[i] : i \in DOMAIN phrases} ELSE {phrases[2]}

\* A selector that ignores randomize.
agent_phrase_first_only(randomize_) == {phrases[1]}

\* A selector whose result for randomize false moves on after a request.
agent_phrase_rotating(randomize_) ==
    IF randomize_ THEN {phrases[i] : i \in DOMAIN phrases}
    ELSE {phrases[IF prior = "none" THEN 1 ELSE 2]}

\* The values agent_phrase(randomize) may return: random.choice(phrases)
\* returns any element, phrases[0] is the first.
agent_phrase(randomize_) ==
    IF randomize_ THEN {phrases[i] : i \in DOMAIN phrases} ELSE {phrases[1]}

(***************************************************************************)
(* Exceptions                                                              *)
(***************************************************************************)

\* OSError (a failed write, bind or certificate load) is an Exception;
\* KeyboardInterrupt is a BaseException that is not an Exception.
IsException(e) == e = "OSError"

\* A bare "except:" in do_GET, which would catch the interrupt as well.
do_GET_catches_all(e) == TRUE

\* do_GET without its try block.
do_GET_catches_nothing(e) == FALSE

\* do_GET's "except Exception".
do_GET_catches(e) == IsException(e)

\* httpd.serve_forever(): socketserver reports an Exception a handler raised
\* and goes on with the next request; anything else leaves serve_forever.
process_request_catches(e) == IsException(e)

\* main's "except KeyboardInterrupt".
main_catches(e) == e = "KeyboardInterrupt"

\* Exception e reaches main inside its try block, after `out` was printed.
RaiseInMain(e, out) ==
    /\ main_pc' = "exit"
    /\ IF main_catches(e)
       THEN /\ stdout' = Append(out, "Bye.")
            /\ exit_status' = "ok"
       ELSE /\ stdout' = out
            /\ exit_status' = "error"

\* Exception e is raised in do_GET, inside its try block or not.
RaiseInHandler(e, in_try) ==
    IF in_try /\ do_GET_catches(e)
    THEN /\ h_pc' = "except"
         /\ h_exc' = e
         /\ UNCHANGED <<main_pc, stdout, exit_status>>
    ELSE IF process_request_catches(e)
    THEN /\ h_pc' = "raised"
         /\ h_exc' = h_exc
         /\ UNCHANGED <<main_pc, stdout, exit_status>>
    ELSE /\ h_pc' = "interrupted"
         /\ h_exc' = h_exc
         /\ RaiseInMain(e, stdout)

(***************************************************************************)
(* main                                                                    *)
(***************************************************************************)

\* No sub-command: neither branch is taken and main returns.
Main_NoCommand ==
    /\ main_pc = "route"
    /\ args.command = "none"
    /\ main_pc' = "exit"
    /\ exit_status' = "ok"
    /\ UNCHANGED <<args, port_free, stdout, address, tls, interrupted, handler_vars, prior>>

\* print(agent_phrase(args.random))
Main_Phrase ==
    /\ main_pc = "route"
    /\ args.command = "phrase"
    /\ \E p \in agent_phrase(args.random) : stdout' = Append(stdout, p)
    /\ main_pc' = "exit"
    /\ exit_status' = "ok"
    /\ UNCHANGED <<args, port_free, address, tls, interrupted, handler_vars, prior>>

\* print("Running web server...") and HTTPServer(("localhost", 8000), WebApp),
\* which raises OSError when the address cannot be bound.
Main_Webserver_Bind ==
    /\ main_pc = "route"
    /\ args.command = "webserver"
    /\ IF port_free
       THEN /\ stdout' = Append(stdout, "Running web server...")
            /\ address' = <<"localhost", 8000>>
            /\ main_pc' = "wrap"
            /\ UNCHANGED exit_status
       ELSE /\ RaiseInMain("OSError", Append(stdout, "Running web server..."))
            /\ UNCHANGED address
    /\ UNCHANGED <<args, port_free, tls, interrupted, handler_vars, prior>>

\* The condition using "or" for "and".
wants_tls_either(a) == truthy(a.ssl_key) \/ truthy(a.ssl_cert)

\* if args.ssl_key and args.ssl_cert
wants_tls(a) == truthy(a.ssl_key) /\ truthy(a.ssl_cert)

\* ssl.wrap_socket loads the files it is given and raises when one cannot be
\* loaded.
loadable(a) ==
    /\ truthy(a.ssl_key) => a.ssl_key[1] \in ReadableFiles
    /\ truthy(a.ssl_cert) => a.ssl_cert[1] \in ReadableFiles

\* The optional ssl.wrap_socket, then httpd.serve_forever() is entered.
Main_Webserver_Wrap ==
    /\ main_pc = "wrap"
    /\ IF wants_tls(args)
       THEN IF loadable(args)
            THEN /\ tls' = TRUE
                 /\ main_pc' = "serve"
                 /\ UNCHANGED <<stdout, exit_status>>
            ELSE /\ RaiseInMain("OSError", stdout)
                 /\ UNCHANGED tls
       ELSE /\ main_pc' = "serve"
            /\ UNCHANGED <<tls, stdout, exit_status>>
    /\ UNCHANGED <<args, port_free, address, interrupted, handler_vars, prior>>

(***************************************************************************)
(* The server loop and WebApp.do_GET                                       *)
(***************************************************************************)

StatusLine(code, message) == [kind |-> "status", code |-> code, text |-> message]
Header(name, value) == [kind |-> "header", code |-> 0, text |-> name \o ": " \o value]
EndOfHeaders == [kind |-> "end", code |-> 0, text |-> ""]

\* One call of self.wfile.write: the buffered head or a body, and whether
\* the write succeeded (it raises OSError when it did not).
HeadWrite(head, ok) == [head |-> head, body |-> "", ok |-> ok]
BodyWrite(body, ok) == [head |-> <<>>, body |-> body, ok |-> ok]

\* The reason phrase send_response adds to a status code.
Reason(code) == IF code = 200 THEN "OK" ELSE "Not Found"

\* The server accepts a connection and reads a GET request line: a handler
\* is made for it, with the request target in self.path.
Serve_Accept ==
    /\ main_pc = "serve"
    /\ h_pc = "idle"
    /\ \E rq \in Requests :
         /\ request' = rq
         /\ self_path' = Target(rq)
    /\ h_pc' = "build"
    /\ UNCHANGED <<main_vars, h_exc, randomize, r_code, r_type, r_content,
                   headers_buffer, wfile, prior>>

\* A route compared without its case.
route_matches_nocase(route) == lower(route) = "/phrase"

\* route == "/phrase"
route_matches(route) == route = "/phrase"

\* The last value of the list for the first.
first_value_last(values) == values[Len(values)]

\* query.get("random", [""])[0]
first_value(values) == values[1]

\* do_GET up to the response values: the URL is parsed and the route taken.
DoGET_Build ==
    /\ main_pc = "serve"
    /\ h_pc = "build"
    /\ LET parsed_url == urlparse(self_path)
           route      == parsed_url.path
           query      == parse_qs(parsed_url.query)
           rnd        == lower(first_value(query_get(query, "random", <<"">>))) = "true"
       IN  IF route_matches(route)
           THEN /\ randomize' = rnd
                /\ r_code' = 200
                /\ \E p \in agent_phrase(rnd) : r_content' = dumps_phrase(rnd, p)
           ELSE /\ randomize' = FALSE
                /\ r_code' = 404
                /\ r_content' = dumps_error("No route found matching " \o route)
    /\ r_type' = "application/json"
    /\ h_pc' = "send"
    /\ UNCHANGED <<main_vars, request, self_path, h_exc, headers_buffer, wfile, prior>>

\* self.send_response(r_code); self.send_header("Content-Type", r_type):
\* both are buffered.
DoGET_SendResponse ==
    /\ main_pc = "serve"
    /\ h_pc = "send"
    /\ headers_buffer' = headers_buffer \o
          <<StatusLine(r_code, Reason(r_code)), Header("Content-Type", r_type)>>
    /\ h_pc' = "end_headers"
    /\ UNCHANGED <<main_vars, request, self_path, h_exc, randomize, r_code, r_type,
                   r_content, wfile, prior>>

\* self.end_headers(): the buffer is written; it is emptied only when the
\* write succeeded.
DoGET_EndHeaders ==
    /\ main_pc = "serve"
    /\ h_pc = "end_headers"
    /\ \E ok \in BOOLEAN :
         LET head == Append(headers_buffer, EndOfHeaders)
         IN  /\ wfile' = Append(wfile, HeadWrite(head, ok))
             /\ IF ok
                THEN /\ headers_buffer' = <<>>
                     /\ h_pc' = "write"
                     /\ UNCHANGED <<h_exc, main_pc, stdout, exit_status>>
                ELSE /\ headers_buffer' = head
                     /\ RaiseInHandler("OSError", TRUE)
    /\ UNCHANGED <<args, port_free, address, tls, interrupted, request, self_path,
                   randomize, r_code, r_type, r_content, prior>>

\* self.wfile.write(r_content.encode("utf8"))
DoGET_Write ==
    /\ main_pc = "serve"
    /\ h_pc = "write"
    /\ \E ok \in BOOLEAN :
         /\ wfile' = Append(wfile, BodyWrite(r_content, ok))
         /\ IF ok
            THEN /\ h_pc' = "done"
                 /\ UNCHANGED <<h_exc, main_pc, stdout, exit_status>>
            ELSE RaiseInHandler("OSError", TRUE)
    /\ UNCHANGED <<args, port_free, address, tls, interrupted, request, self_path,
                   randomize, r_code, r_type, r_content, headers_buffer, prior>>

\* self.send_error(500, message="Server Error.", explain=str(exc)): a status
\* line and the headers of an error page are added to the buffer, the buffer
\* is written, then the page (its markup is left out here).
DoGET_Except ==
    /\ main_pc = "serve"
    /\ h_pc = "except"
    /\ \E ok_head \in BOOLEAN, ok_body \in BOOLEAN :
         LET head == headers_buffer \o
                       <<StatusLine(500, "Server Error."),
                         Header("Content-Type", "text/html;charset=utf-8"),
                         EndOfHeaders>>
         IN  /\ ok_body => ok_head
             /\ IF ok_head
                THEN /\ headers_buffer' = <<>>
                     /\ wfile' = wfile \o <<HeadWrite(head, TRUE),
                                            BodyWrite("Server Error.", ok_body)>>
                ELSE /\ headers_buffer' = head
                     /\ wfile' = Append(wfile, HeadWrite(head, FALSE))
             /\ IF ok_body
                THEN /\ h_pc' = "done"
                     /\ UNCHANGED <<h_exc, main_pc, stdout, exit_status>>
                ELSE RaiseInHandler("OSError", FALSE)
    /\ UNCHANGED <<args, port_free, address, tls, interrupted, request, self_path,
                   randomize, r_code, r_type, r_content, prior>>

\* The request is over (do_GET returned, or raised and the server reported
\* it): the connection is closed, the handler dropped, the loop goes on.
Serve_Finish ==
    /\ main_pc = "serve"
    /\ h_pc \in {"done", "raised"}
    /\ prior' = IF h_pc = "raised" THEN "raised"
                ELSE IF h_exc # "none" THEN "error" ELSE "ok"
    /\ request' = NoRequest
    /\ self_path' = ""
    /\ h_pc' = "idle"
    /\ h_exc' = "none"
    /\ randomize' = FALSE
    /\ r_code' = 0
    /\ r_type' = ""
    /\ r_content' = ""
    /\ headers_buffer' = <<>>
    /\ wfile' = <<>>
    /\ UNCHANGED main_vars

\* The operator interrupts the process: KeyboardInterrupt is raised at the
\* point the main thread has reached.
Interrupt ==
    /\ main_pc \in {"wrap", "serve"}
    /\ interrupted' = TRUE
    /\ IF h_pc \in {"build", "send", "end_headers", "write", "except"}
       THEN RaiseInHandler("KeyboardInterrupt", h_pc # "except")
       ELSE /\ RaiseInMain("KeyboardInterrupt", stdout)
            /\ UNCHANGED <<h_pc, h_exc>>
    /\ UNCHANGED <<args, port_free, address, tls, request, self_path, randomize,
                   r_code, r_type, r_content, headers_buffer, wfile, prior>>

Next ==
    \/ Main_NoCommand
    \/ Main_Phrase
    \/ Main_Webserver_Bind
    \/ Main_Webserver_Wrap
    \/ Serve_Accept
    \/ DoGET_Build
    \/ DoGET_SendResponse
    \/ DoGET_EndHeaders
    \/ DoGET_Write
    \/ DoGET_Except
    \/ Serve_Finish
    \/ Interrupt

Spec == Init /\ [][Next]_vars

\* The runs in which no certificate and no key is given on the command line.
InitPlain ==
    /\ Init
    /\ args.ssl_cert = None
    /\ args.ssl_key = None

SpecPlain == InitPlain /\ [][Next]_vars

(***************************************************************************)
(* What the responses are expected to be, written out                      *)
(***************************************************************************)

\* do_GET has set the response values of the request.
Built == r_code # 0

\* do_GET is over: it returned ("done") or an exception left it ("raised").
Finished == h_pc \in {"done", "raised"}

\* The body of a /phrase response that is not random.
FirstPhraseBody ==
    "{\"random\": false, \"phrase\": \"The name\\u2019s Bond. James Bond.\"}"

\* The bodies of a random /phrase response, one for each phrase.
RandomBodies ==
    { "{\"random\": true, \"phrase\": \"The name\\u2019s Bond. James Bond.\"}",
      "{\"random\": true, \"phrase\": \"Shaken, not stirred.\"}",
      "{\"random\": true, \"phrase\": \"They say you\\u2019re judged by the strength of your enemies.\"}",
      "{\"random\": true, \"phrase\": \"Problem solver? More of a problem eliminator.\"}" }

\* The body of the 404 response for each path that is not the route.
ErrorBody(path) ==
    CASE path = "/Phrase" ->
           "{\"error\": \"No route found matching /Phrase\"}"
      [] path = "/phrase/" ->
           "{\"error\": \"No route found matching /phrase/\"}"
      [] path = "/" ->
           "{\"error\": \"No route found matching /\"}"
      [] path = "/unknown/path" ->
           "{\"error\": \"No route found matching /unknown/path\"}"
      [] path = "/a\"b" ->
           "{\"error\": \"No route found matching /a\\\"b\"}"

\* The "random" member of a /phrase body, as the text of its JSON value.
BodyRandom ==
    IF SubSeq(r_content, 1, 16) = "{\"random\": true," THEN "true"
    ELSE IF SubSeq(r_content, 1, 17) = "{\"random\": false," THEN "false"
    ELSE "absent"

\* The decoded values the request supplies for `random`, in order: those of
\* its "random=value" fields, the empty value of "random=" included.
RECURSIVE SuppliedRandom(_)
SuppliedRandom(fields) ==
    IF fields = <<>> THEN <<>>
    ELSE (IF Head(fields).name = "random" /\ Head(fields).eq
          THEN <<unquote(Head(fields).value)>> ELSE <<>>)
         \o SuppliedRandom(Tail(fields))

NonEmpty(v) == v # ""

\* The status lines delivered to the client: those of the writes to the
\* connection that succeeded.
RECURSIVE StatusLinesDelivered(_)
StatusLinesDelivered(writes) ==
    IF writes = <<>> THEN 0
    ELSE (IF Head(writes).ok
          THEN Len(SelectSeq(Head(writes).head, LAMBDA e : e.kind = "status"))
          ELSE 0)
         + StatusLinesDelivered(Tail(writes))

\* A write of wfile, failed or not, carries the 500 status line.
Written500(writes) ==
    \E i \in DOMAIN writes :
        \E j \in DOMAIN writes[i].head :
            writes[i].head[j] = StatusLine(500, "Server Error.")

\* A write of wfile that succeeded and carries the 500 status line.
Delivered500(writes) ==
    \E i \in DOMAIN writes :
        /\ writes[i].ok
        /\ \E j \in DOMAIN writes[i].head :
              writes[i].head[j] = StatusLine(500, "Server Error.")

(***************************************************************************)
(* Claims                                                                  *)
(***************************************************************************)

\* C1, as stated: for a GET of path "/phrase", randomize and the "random"
\* member of the body are true exactly when the request supplies a `random`
\* value and the first supplied value, lowercased, is "true".
C1_FirstSuppliedValue ==
    (Built /\ request.path = "/phrase") =>
        LET supplied == SuppliedRandom(request.fields)
            expected == supplied # <<>> /\ lower(supplied[1]) = "true"
        IN  /\ randomize = expected
            /\ BodyRandom = (IF expected THEN "true" ELSE "false")

\* C1, amended: for a GET of path "/phrase", randomize and the "random"
\* member of the body are true exactly when the request supplies a non-empty
\* `random` value and the first non-empty one, lowercased, is "true"; empty
\* values are skipped and later values do not matter.
C1_FirstNonEmptyValue ==
    (Built /\ request.path = "/phrase") =>
        LET supplied == SelectSeq(SuppliedRandom(request.fields), NonEmpty)
            expected == supplied # <<>> /\ lower(supplied[1]) = "true"
        IN  /\ randomize = expected
            /\ BodyRandom = (IF expected THEN "true" ELSE "false")

\* C1: an empty first value was skipped and the second one decided, and a
\* first value "true" won over a later "false".
C1_Witness ==
    /\ Built
    /\ request.path = "/phrase"
    /\ Len(request.fields) = 2
    /\ request.fields[1] = [name |-> "random", eq |-> TRUE, value |-> ""]
    /\ request.fields[2] = [name |-> "random", eq |-> TRUE, value |-> "true"]
    /\ randomize
    /\ BodyRandom = "true"

\* The first `random` field of the request is written "=value" with a value
\* that spells "true" with at least one capital letter.
FirstRandomIsCapitalised ==
    /\ request.fields # <<>>
    /\ request.fields[1].name = "random"
    /\ request.fields[1].eq
    /\ unquote(request.fields[1].value) \in {"TRUE", "True"}

\* C2, as stated: a GET of /phrase whose `random` value is "TRUE", or any
\* casing of "true" other than all-lowercase, has "random": false in its body.
C2_CaseSensitive ==
    (Built /\ request.path = "/phrase" /\ FirstRandomIsCapitalised) =>
        /\ ~randomize
        /\ BodyRandom = "false"

\* C2, amended: a GET of /phrase whose `random` value is "TRUE", or any other
\* casing of "true", has status 200 and "random": true in its body: the value
\* is lowercased before it is compared.
C2_CaseInsensitive ==
    (Built /\ request.path = "/phrase" /\ FirstRandomIsCapitalised) =>
        /\ r_code = 200
        /\ randomize
        /\ BodyRandom = "true"

\* C2: the response to /phrase?random=TRUE was sent, with "random": true.
C2_Witness ==
    /\ h_pc = "done"
    /\ h_exc = "none"
    /\ self_path = "/phrase?random=TRUE"
    /\ BodyRandom = "true"

\* C3: whenever the selector is called with randomize false it returns the
\* first phrase, whatever happened before: the command line prints it, and a
\* GET /phrase whose randomize is false gets status 200 and the body
\* {"random": false, "phrase": <first phrase>}, which is what is written.
C3_FirstPhrase ==
    /\ (args.command = "phrase" /\ ~args.random /\ main_pc = "exit") =>
           stdout = <<phrases[1]>>
    /\ (Built /\ request.path = "/phrase" /\ ~randomize) =>
           /\ r_code = 200
           /\ r_type = "application/json"
           /\ r_content = FirstPhraseBody
    /\ (h_pc = "done" /\ h_exc = "none" /\ request.path = "/phrase" /\ ~randomize) =>
           wfile = << HeadWrite(<<StatusLine(200, "OK"),
                                  Header("Content-Type", "application/json"),
                                  EndOfHeaders>>, TRUE),
                      BodyWrite(FirstPhraseBody, TRUE) >>

\* C3: a non-random /phrase response was sent after an earlier request whose
\* handler had raised.
C3_Witness ==
    /\ prior = "raised"
    /\ h_pc = "done"
    /\ h_exc = "none"
    /\ request.path = "/phrase"
    /\ ~randomize
    /\ r_content = FirstPhraseBody

\* The request being served asks for a random phrase.
AsksRandom ==
    /\ request.path = "/phrase"
    /\ request.fields # <<>>
    /\ request.fields[1] = [name |-> "random", eq |-> TRUE, value |-> "true"]

\* C4: whenever the selector is called with randomize true it returns a
\* member of the phrase list and every member is a possible result: the
\* command line prints a member, and a GET /phrase whose randomize is true
\* gets status 200, "random": true and a phrase of the list; at each of the
\* two calls every phrase is among the values the call may return.
C4_RandomPhrase ==
    /\ (args.command = "phrase" /\ args.random /\ main_pc = "exit") =>
           \E i \in DOMAIN phrases : stdout = <<phrases[i]>>
    /\ (args.command = "phrase" /\ args.random /\ main_pc = "route") =>
           \A i \in DOMAIN phrases : phrases[i] \in agent_phrase(args.random)
    /\ (Built /\ request.path = "/phrase" /\ randomize) =>
           /\ r_code = 200
           /\ r_type = "application/json"
           /\ r_content \in RandomBodies
    /\ (Built /\ request.path = "/phrase" /\ AsksRandom) =>
           /\ randomize
           /\ \A i \in DOMAIN phrases : phrases[i] \in agent_phrase(randomize)

\* C4: a random /phrase response carrying the last phrase of the list was
\* sent.
C4_Witness ==
    /\ h_pc = "done"
    /\ h_exc = "none"
    /\ randomize
    /\ r_content = dumps_phrase(TRUE, phrases[Len(phrases)])

\* The path of the request target as the client wrote it: everything before
\* the query string and the fragment.
WrittenPath(rq) == rq.path \o (IF rq.params = "" THEN "" ELSE ";" \o rq.params)

\* C5, as stated: a GET whose path, the target without its query string, is
\* not exactly "/phrase" gets 404 with that path in the error, and a GET
\* whose path is exactly "/phrase" never gets 404.
C5_ExactPath ==
    Built =>
        IF WrittenPath(request) = "/phrase"
        THEN r_code # 404
        ELSE /\ r_code = 404
             /\ r_type = "application/json"
             /\ r_content = dumps_error("No route found matching " \o WrittenPath(request))

\* C5, amended: routing is an exact, case-sensitive match on the path that
\* urlparse yields, which is the request target without its query string,
\* its fragment and the ";parameters" of its last segment.  A GET whose such
\* path is not "/phrase" gets 404, application/json and the error "No route
\* found matching <that path>"; one whose such path is "/phrase" gets 200.
C5_ParsedPath ==
    /\ Built =>
        IF request.path = "/phrase"
        THEN r_code = 200
        ELSE /\ r_code = 404
             /\ r_type = "application/json"
             /\ r_content = ErrorBody(request.path)
    /\ (h_pc = "done" /\ h_exc = "none" /\ request.path # "/phrase") =>
           wfile = << HeadWrite(<<StatusLine(404, "Not Found"),
                                  Header("Content-Type", "application/json"),
                                  EndOfHeaders>>, TRUE),
                      BodyWrite(ErrorBody(request.path), TRUE) >>

\* C5: a near miss of the route, with parameters and a query, got the 404.
C5_Witness ==
    /\ h_pc = "done"
    /\ h_exc = "none"
    /\ request.path = "/Phrase"
    /\ request.params # ""
    /\ request.fields # <<>>
    /\ r_code = 404

\* C6: do_GET writes exactly one status line for a request: at no time has
\* the client been sent more than one, also when a write of the send sequence
\* failed, and once do_GET has returned the client has been sent one.
C6_ExactlyOneStatusLine ==
    /\ StatusLinesDelivered(wfile) <= 1
    /\ h_pc = "done" => StatusLinesDelivered(wfile) = 1

\* A write to the connection failed while the request was handled.
AWriteFailed == \E i \in DOMAIN wfile : ~wfile[i].ok

\* C7, as stated: a failure raised while the response is sent is recovered:
\* the request is answered with status 500 "Server Error." and the failure
\* does not leave do_GET.
C7_AlwaysRecovered ==
    (Finished /\ AWriteFailed) =>
        /\ h_pc = "done"
        /\ Delivered500(wfile)

\* C7, amended: a failure raised while the response is sent is caught by
\* do_GET, which calls send_error(500, "Server Error."); when the writes of
\* send_error succeed the 500 is delivered and do_GET returns, and when one
\* of them fails that failure leaves do_GET.  Either way the server goes on:
\* the process does not end in an error, the next handler starts afresh and
\* the response values of a later request are those of a first request.
C7_RecoveredUnlessSendErrorFails ==
    /\ (Finished /\ AWriteFailed) =>
           /\ h_exc = "OSError"
           /\ Written500(wfile)
    /\ (h_pc = "done" /\ h_exc # "none") =>
           /\ Delivered500(wfile)
           /\ wfile[Len(wfile)] = BodyWrite("Server Error.", TRUE)
    /\ h_pc = "raised" => (h_exc # "none" /\ ~wfile[Len(wfile)].ok)
    /\ prior \in {"error", "raised"} =>
           /\ exit_status # "error"
           /\ main_pc = "exit" => interrupted
           /\ h_pc = "idle" => HandlerIdle
           /\ Built =>
                 /\ r_code = (IF request.path = "/phrase" THEN 200 ELSE 404)
                 /\ r_content \in
                       (IF request.path # "/phrase" THEN {ErrorBody(request.path)}
                        ELSE IF randomize THEN RandomBodies ELSE {FirstPhraseBody})

\* C7: after a request whose failure left do_GET, a request whose body write
\* failed was answered with the 500.
C7_Witness ==
    /\ prior = "raised"
    /\ h_pc = "done"
    /\ h_exc = "OSError"
    /\ Delivered500(wfile)

BothSupplied == args.ssl_cert # None /\ args.ssl_key # None

BothReadable ==
    /\ BothSupplied
    /\ args.ssl_cert[1] \in ReadableFiles
    /\ args.ssl_key[1] \in ReadableFiles

C9_InterruptStopsServer ==
    [][ /\ (main_pc = "serve" /\ main_pc' # "serve") => interrupted'
        /\ (~interrupted /\ interrupted') =>
              /\ main_pc' = "exit"
              /\ exit_status' = "ok"
              /\ stdout' = Append(stdout, "Bye.")
              /\ wfile' = wfile
        /\ interrupted => UNCHANGED vars ]_vars

\* C9: the interrupt arrived while a request was being sent, after an
\* earlier request had failed.
C9_Witness ==
    /\ interrupted
    /\ prior = "raised"
    /\ h_pc = "interrupted"
    /\ Len(wfile) = 1
    /\ main_pc = "exit"
    /\ exit_status = "ok"
    /\ stdout = <<"Running web server...", "Bye.">>

\* C10: no step of the serving loop changes state that requests share (the
\* command line, the listening socket, what main printed), a handler leaves
\* nothing behind for the next one, and the response values of a non-random
\* request are fixed by the request alone, whatever was handled before it.
C10_NothingShared ==
    [][ /\ (main_pc = "serve" /\ main_pc' = "serve") =>
              UNCHANGED <<args, port_free, stdout, address, tls>>
        /\ h_pc' = "idle" => HandlerIdle'
        /\ (Built' /\ ~randomize') =>
              /\ r_code' = (IF request'.path = "/phrase" THEN 200 ELSE 404)
              /\ r_type' = "application/json"
              /\ r_content' = (IF request'.path = "/phrase" THEN FirstPhraseBody
                               ELSE ErrorBody(request'.path)) ]_vars

\* C10: a non-random request was answered after an earlier request had been
\* answered with a 500.
C10_Witness ==
    /\ prior = "error"
    /\ h_pc = "done"
    /\ h_exc = "none"
    /\ ~randomize
    /\ r_code = 200

====
